---- MODULE Spec2Model ----
(***************************************************************************)
(* A model of src/training_utils.py: the filename parameter extractor      *)
(* (extract_floats), the dataset loader (data_load), the splitter          *)
(* (split_dataset), the overlap statistic of plot_violin_and_statistics    *)
(* and get_huber_loss.                                                     *)
(*                                                                         *)
(* The module is a library of functions, so there is one specification per *)
(* function: its Init draws the arguments (and, for data_load, the content *)
(* of the data directory) from bounded sets and its actions run the        *)
(* function.  All specifications share four variables:                     *)
(*   pc    the position in the running function,                           *)
(*   args  its arguments and the part of the environment it reads,         *)
(*   loc   its local variables (named as in the source),                   *)
(*   ret   what it returned, or the exception it raised.                   *)
(*                                                                         *)
(* Representations.  A Python string is the sequence of its characters.    *)
(* A float is a fixed-point integer; the unit is stated where it is used.  *)
(***************************************************************************)
EXTENDS Integers, Sequences, FiniteSets, TLC

VARIABLES pc, args, loc, ret

vars == <<pc, args, loc, ret>>

NoLocals == [none |-> TRUE]
NoReturn == [none |-> TRUE]

Range(s) == {s[i] : i \in DOMAIN s}

RECURSIVE Flatten(_)
Flatten(ss) == IF ss = <<>> THEN <<>> ELSE Head(ss) \o Flatten(Tail(ss))

RECURSIVE SumSeq(_)
SumSeq(s) == IF s = <<>> THEN 0 ELSE Head(s) + SumSeq(Tail(s))

(***************************************************************************)
(* Bounds of the model.                                                    *)
(***************************************************************************)
\* extract_floats: the longest enumerated input string
MaxLen == 4
\* data_load: the most alphas and densities passed, the most images stored in
\* one file, and the most samples loaded in one call (3 per image; the final
\* shuffle can produce every order of them)
MaxAlphas == 2
MaxDens == 1
MaxImgs == 2
MaxSamples == 6
\* data_load, pixel level: the larger image side, the most occupied sites of
\* a drawn image, and how far below zero a raw pixel value is drawn
MaxDim == 4
MaxParticles == 1
NegPix == 1
\* split_dataset: the largest dataset and the largest `last`
MaxN == 3
MaxLast == 4
\* overlap statistic: the most (prediction, actual) pairs and the number of
\* label values next to 0.008
MaxPairs == 2
MaxVal == 2
\* get_huber_loss: the longest tensor, the largest value and clip_delta
MaxVec == 2
MaxY == 3
MaxDelta == 3

(***************************************************************************)
(* extract_floats (lines 15-21):                                           *)
(*     re.findall(r"[-+]?\d*\.\d+|\d+", string)                            *)
(* findall scans left to right; at each position it tries the first        *)
(* alternative, then the second, and after a match resumes at the match's  *)
(* end; with no match it moves one character on.  Every quantifier is      *)
(* greedy, and giving back a digit or the sign never helps the first       *)
(* alternative (the next character would have to be "."), so the greedy    *)
(* attempt decides.                                                        *)
(*                                                                         *)
(* Characters.  A string is a sequence of characters.  An ASCII character  *)
(* is written as itself ("0"); a character beyond ASCII is written by its  *)
(* code point, as Python's chr does ("chr(1635)" is U+0663, ARABIC-INDIC   *)
(* DIGIT THREE).  The pattern is a str pattern compiled without re.ASCII,  *)
(* so \d is every character of the Unicode category Nd: the runs of ten    *)
(* digits 0..9 that start at the code points below (Unicode 14, with which *)
(* Python 3.11 is built).                                                  *)
(***************************************************************************)
Chr(n) == "chr(" \o ToString(n) \o ")"

AsciiDigits == {"0", "1", "2", "3", "4", "5", "6", "7", "8", "9"}

\* The code points, beyond ASCII, of the digits zero of Unicode.
DigitBases ==
    {1632, 1776, 1984, 2406, 2534, 2662, 2790, 2918, 3046, 3174, 3302, 3430,
     3558, 3664, 3792, 3872, 4160, 4240, 6112, 6160, 6470, 6608, 6784, 6800,
     6992, 7088, 7232, 7248, 42528, 43216, 43264, 43472, 43504, 43600, 44016,
     65296, 66720, 68912, 69734, 69872, 69942, 70096, 70384, 70736, 70864,
     71248, 71360, 71472, 71904, 72016, 72784, 73040, 73120, 92768, 92864,
     93008, 120782, 120792, 120802, 120812, 120822, 123200, 123632, 125264,
     130032}

\* \d
Digits == AsciiDigits \cup {Chr(b + k) : b \in DigitBases, k \in 0..9}
Signs == {"-", "+"}

IsDigit(c) == c \in Digits

\* The index just past the longest run of digits that starts at i (\d*).
RECURSIVE DigitsEnd(_, _)
DigitsEnd(s, i) ==
    IF i <= Len(s) /\ IsDigit(s[i]) THEN DigitsEnd(s, i + 1) ELSE i

\* [-+]?\d*\.\d+ at i: the index just past the match, or 0.
MatchDecimal(s, i) ==
    LET a == IF i <= Len(s) /\ s[i] \in Signs THEN i + 1 ELSE i
        b == DigitsEnd(s, a)
        c == DigitsEnd(s, b + 1)
    IN  IF b <= Len(s) /\ s[b] = "." /\ c > b + 1 THEN c ELSE 0

\* \d+ at i: the index just past the match, or 0.
MatchInteger(s, i) ==
    LET e == DigitsEnd(s, i) IN IF e > i THEN e ELSE 0

\* A mutant of the pattern: the integer alternative is lost
\* (r"[-+]?\d*\.\d+").
MatchAtDecimalOnly(s, i) == MatchDecimal(s, i)

\* The pattern at i: first alternative, else second; 0 for no match.
MatchAt(s, i) ==
    LET d == MatchDecimal(s, i)
    IN  IF d # 0 THEN d ELSE MatchInteger(s, i)

RECURSIVE FindAll(_, _)
FindAll(s, i) ==
    IF i > Len(s) THEN <<>>
    ELSE LET e == MatchAt(s, i)
         IN  IF e = 0 THEN FindAll(s, i + 1)
             ELSE <<SubSeq(s, i, e - 1)>> \o FindAll(s, e)

extract_floats(string) == FindAll(string, 1)

\* "dataset_tumble_0.125_0.3.h5"
ExampleName ==
    <<"d", "a", "t", "a", "s", "e", "t", "_", "t", "u", "m", "b", "l", "e",
      "_", "0", ".", "1", "2", "5", "_", "0", ".", "3", ".", "h", "5">>

\* The characters the enumerated strings are made of: both signs, the point,
\* two ASCII digits, a digit beyond ASCII (U+0663) and two other characters.
Alphabet == {"-", "+", ".", "0", "5", Chr(1635), "h", "_"}

RECURSIVE StringsUpTo(_)
StringsUpTo(n) ==
    IF n = 0 THEN {<<>>}
    ELSE LET shorter == StringsUpTo(n - 1)
         IN  shorter \cup {Append(s, c) : s \in {t \in shorter : Len(t) = n - 1},
                                          c \in Alphabet}

ExtractInputs == StringsUpTo(MaxLen) \cup {ExampleName}

InitExtract ==
    /\ pc = "call"
    /\ args \in [string : ExtractInputs]
    /\ loc = NoLocals
    /\ ret = NoReturn

ExtractFloats ==
    /\ pc = "call"
    /\ pc' = "done"
    /\ ret' = [value |-> extract_floats(args.string)]
    /\ UNCHANGED <<args, loc>>

NextExtract == ExtractFloats

SpecExtract == InitExtract /\ [][NextExtract]_vars

\* The float grammar, stated apart from the scanner: an optional sign, digits,
\* a point and at least one digit; or at least one digit and nothing else.
IsDecimalText(t) ==
    \E p \in 1..Len(t) :
        /\ t[p] = "."
        /\ p < Len(t)
        /\ \A k \in (p + 1)..Len(t) : IsDigit(t[k])
        /\ \A k \in 1..(p - 1) : IsDigit(t[k]) \/ (k = 1 /\ t[k] \in Signs)

IsIntegerText(t) == t # <<>> /\ \A k \in 1..Len(t) : IsDigit(t[k])

IsFloatText(t) == IsDecimalText(t) \/ IsIntegerText(t)

DigitsOf(s) == SelectSeq(s, IsDigit)

\* What the spec's example expects, and what the pattern yields.
ExampleExpected == << <<"0", ".", "1", "2", "5">>, <<"0", ".", "3">> >>
ExampleActual == << <<"0", ".", "1", "2", "5">>, <<"0", ".", "3">>, <<"5">> >>

ExtractGeneral ==
    pc = "done" =>
        /\ \A k \in DOMAIN ret.value : IsFloatText(ret.value[k])
        /\ DigitsOf(Flatten(ret.value)) = DigitsOf(args.string)
        /\ (DigitsOf(args.string) = <<>> => ret.value = <<>>)

\* C4 as stated: every returned item matches the float grammar, the items keep
\* the left-to-right order of the string (no digit of the string is lost or
\* moved), a string with no digit yields the empty sequence, and
\* "dataset_tumble_0.125_0.3.h5" yields ["0.125", "0.3"].
C4_AsStated ==
    /\ ExtractGeneral
    /\ (pc = "done" /\ args.string = ExampleName => ret.value = ExampleExpected)

\* C4 amended: the same, except that "dataset_tumble_0.125_0.3.h5" yields
\* ["0.125", "0.3", "5"]: the 5 of the extension ".h5" is a match of the
\* integer alternative.
C4_ExtractFloats ==
    /\ ExtractGeneral
    /\ (pc = "done" /\ args.string = ExampleName => ret.value = ExampleActual)

\* C4 witness: the example name has been scanned.
C4_Witness ==
    pc = "done" /\ args.string = ExampleName /\ Len(ret.value) = 3

(***************************************************************************)
(* split_dataset (lines 72-85).  x and y are arrays of the same length;    *)
(* the prints do not change anything.  A Python slice a[start:stop] with   *)
(* an omitted bound, clamped as CPython clamps it: a negative bound counts *)
(* from the end, and -0 is 0.                                              *)
(***************************************************************************)
\* A bound of a slice of a sequence of length n, as an offset in 0..n.
SliceBound(n, b) ==
    IF b < 0 THEN (IF n + b < 0 THEN 0 ELSE n + b)
    ELSE (IF b > n THEN n ELSE b)

\* a[:stop] and a[start:] on a 1-based sequence.
SliceTo(a, stop) == SubSeq(a, 1, SliceBound(Len(a), stop))
SliceFrom(a, start) == SubSeq(a, SliceBound(Len(a), start) + 1, Len(a))

split_dataset(x, y, last) ==
    [x_train |-> SliceTo(x, 0 - last),
     y_train |-> SliceTo(y, 0 - last),
     x_val   |-> SliceFrom(x, 0 - last),
     y_val   |-> SliceFrom(y, 0 - last)]

\* Samples are told apart by a name, labels are small numbers.
SplitSamples == {"a", "b"}
SplitLabels == {1, 2}

SplitInputs ==
    UNION {[x : [1..n -> SplitSamples], y : [1..n -> SplitLabels], last : 0..MaxLast]
           : n \in 0..MaxN}

InitSplit ==
    /\ pc = "call"
    /\ args \in SplitInputs
    /\ loc = NoLocals
    /\ ret = NoReturn

SplitDataset ==
    /\ pc = "call"
    /\ pc' = "done"
    /\ ret' = split_dataset(args.x, args.y, args.last)
    /\ UNCHANGED <<args, loc>>

NextSplit == SplitDataset

SpecSplit == InitSplit /\ [][NextSplit]_vars

SplitSizes(k) ==
    /\ Len(ret.x_train) = Len(args.x) - k
    /\ Len(ret.y_train) = Len(args.y) - k
    /\ Len(ret.x_val) = k
    /\ Len(ret.y_val) = k

SplitConcat ==
    /\ ret.x_train \o ret.x_val = args.x
    /\ ret.y_train \o ret.y_val = args.y

\* C3 as stated: for a dataset of size N and last = k < N, the training set
\* has N - k samples, the validation set has k, and training followed by
\* validation is the dataset.
C3_AsStated ==
    (pc = "done" /\ args.last < Len(args.x)) => (SplitSizes(args.last) /\ SplitConcat)

\* C3, what the code does: the sizes are N - k and k for 0 < k < N, and the
\* concatenation is the dataset for every k.
C3_SplitPositive ==
    pc = "done" =>
        /\ SplitConcat
        /\ (0 < args.last /\ args.last < Len(args.x) => SplitSizes(args.last))

\* C3, the case the code gets wrong: last = 0 on a non-empty dataset gives an
\* empty training set and the whole dataset as validation.
C3_ZeroLast ==
    (pc = "done" /\ args.last = 0) => (ret.x_train = <<>> /\ ret.x_val = args.x)

(***************************************************************************)
(* Floats.  A Python float and a NumPy float64 are IEEE 754 binary64       *)
(* numbers: a sign, an exponent and a significand of 53 bits, and every    *)
(* operation gives the float nearest the exact result, a tie going to the  *)
(* even significand.  A float is modelled bit for bit.  The exponent range *)
(* of binary64 (overflow to infinity, subnormals below 2^-1022) is not     *)
(* modelled: no number of the model is near it.                            *)
(*                                                                         *)
(* A natural number of any size is the sequence of its bits, the most      *)
(* significant first and no leading 0; zero is the empty sequence.         *)
(***************************************************************************)
Precision == 53

Zeros(n) == [i \in 1..n |-> 0]

Strip(x) ==
    IF \A i \in DOMAIN x : x[i] = 0 THEN <<>>
    ELSE SubSeq(x, CHOOSE i \in DOMAIN x : x[i] = 1 /\ \A j \in 1..(i - 1) : x[j] = 0,
                Len(x))

PadLeft(x, n) == Zeros(n - Len(x)) \o x

\* x * 2^n
ShiftLeft(x, n) == IF x = <<>> THEN x ELSE x \o Zeros(n)

\* The carry into bit i of x + y, for x and y of the same length: every bit
\* with one 1 passes a carry on, and the first bit to the right of i that
\* does not gives one (both bits 1) or none (both 0).
CarryInto(x, y, i) ==
    IF \A j \in (i + 1)..Len(x) : x[j] + y[j] = 1 THEN 0
    ELSE LET j == CHOOSE j \in (i + 1)..Len(x) :
                      x[j] + y[j] # 1 /\ \A k \in (i + 1)..(j - 1) : x[k] + y[k] = 1
         IN  IF x[j] + y[j] = 2 THEN 1 ELSE 0

BigAdd(x, y) ==
    LET n == IF Len(x) > Len(y) THEN Len(x) ELSE Len(y)
        a == PadLeft(x, n + 1)
        b == PadLeft(y, n + 1)
    IN  Strip([i \in 1..(n + 1) |-> (a[i] + b[i] + CarryInto(a, b, i)) % 2])

\* The borrow from bit i of x - y, for x >= y of the same length: equal bits
\* pass a borrow on, and the first unequal bits to the right of i need one
\* (0 less 1) or none (1 less 0).
BorrowFrom(x, y, i) ==
    IF \A j \in (i + 1)..Len(x) : x[j] = y[j] THEN 0
    ELSE LET j == CHOOSE j \in (i + 1)..Len(x) :
                      x[j] # y[j] /\ \A k \in (i + 1)..(j - 1) : x[k] = y[k]
         IN  IF x[j] < y[j] THEN 1 ELSE 0

\* x - y for x >= y
BigSub(x, y) ==
    LET b == PadLeft(y, Len(x))
    IN  Strip([i \in DOMAIN x |-> (x[i] - b[i] - BorrowFrom(x, b, i)) % 2])

BigLess(x, y) ==
    \/ Len(x) < Len(y)
    \/ /\ Len(x) = Len(y)
       /\ \E i \in DOMAIN x : x[i] < y[i] /\ \A j \in 1..(i - 1) : x[j] = y[j]

\* x * k for a natural number k
RECURSIVE MulSmall(_, _)
MulSmall(x, k) ==
    IF k = 0 THEN <<>>
    ELSE IF k % 2 = 0 THEN ShiftLeft(MulSmall(x, k \div 2), 1)
    ELSE BigAdd(ShiftLeft(MulSmall(x, k \div 2), 1), x)

RECURSIVE Pow2(_)
Pow2(k) == IF k = 0 THEN 1 ELSE 2 * Pow2(k - 1)

\* The number a sequence of bits stands for (a small one).
BitsValue(x) ==
    LET y == Strip(x) IN SumSeq([i \in DOMAIN y |-> y[i] * Pow2(Len(y) - i)])

\* The last n bits of a small number.
BitsOf(q, n) == [i \in 1..n |-> (q \div Pow2(n - i)) % 2]

RECURSIVE Pow10(_)
Pow10(k) == IF k = 0 THEN 1 ELSE 10 * Pow10(k - 1)

\* A float: NaN, zero, or (-1)^sign * man * 2^(exp - 52) with man of 53 bits,
\* the first of them 1.
NaN == [kind |-> "nan", sign |-> 0, exp |-> 0, man |-> <<>>]
Zero == [kind |-> "zero", sign |-> 0, exp |-> 0, man |-> <<>>]
Finite(sign, exp, man) == [kind |-> "num", sign |-> sign, exp |-> exp, man |-> man]

IsNaN(f) == f.kind = "nan"
IsNegative(f) == f.kind = "num" /\ f.sign = 1

\* The float nearest (-1)^sign * x * 2^e0, for x # 0: round to nearest, ties
\* to even.
RoundToDouble(sign, x, e0) ==
    LET n == Len(x)
    IN  IF n <= Precision
        THEN Finite(sign, e0 + n - 1, x \o Zeros(Precision - n))
        ELSE LET top == SubSeq(x, 1, Precision)
                 up == /\ x[Precision + 1] = 1
                       /\ \/ top[Precision] = 1
                          \/ \E i \in (Precision + 2)..n : x[i] = 1
                 y == IF up THEN BigAdd(top, <<1>>) ELSE top
             IN  IF Len(y) > Precision
                 THEN Finite(sign, e0 + n, SubSeq(y, 1, Precision))
                 ELSE Finite(sign, e0 + n - 1, y)

\* The exponent of num / den: the e with 2^e <= num / den < 2^(e + 1).
RECURSIVE ExponentOf(_, _)
ExponentOf(num, den) ==
    IF num < den THEN ExponentOf(2 * num, den) - 1
    ELSE IF num >= 2 * den THEN ExponentOf(num, 2 * den) + 1
    ELSE 0

\* The first k bits of r / den after the point, for r < den, and one more bit
\* 1 if the quotient goes on after them: long division, 8 bits a step.
RECURSIVE QuotientBits(_, _, _)
QuotientBits(r, den, k) ==
    IF k = 0 THEN (IF r = 0 THEN <<>> ELSE <<1>>)
    ELSE LET n == IF k < 8 THEN k ELSE 8
         IN  BitsOf((r * Pow2(n)) \div den, n)
             \o QuotientBits((r * Pow2(n)) % den, den, k - n)

\* The float a decimal literal denotes: the one nearest n / den.
ToDouble(n, den) ==
    IF n = 0 THEN Zero
    ELSE LET m == IF n < 0 THEN 0 - n ELSE n
             e == ExponentOf(m, den)
             num == IF e < 0 THEN m * Pow2(0 - e) ELSE m
             scaled == IF e > 0 THEN den * Pow2(e) ELSE den
             bits == <<1>> \o QuotientBits(num - scaled, scaled, Precision)
         IN  RoundToDouble(IF n < 0 THEN 1 ELSE 0, bits, e - (Len(bits) - 1))

FNeg(a) == IF a.kind = "num" THEN [a EXCEPT !.sign = 1 - a.sign] ELSE a

\* a + b
FAdd(a, b) ==
    IF IsNaN(a) \/ IsNaN(b) THEN NaN
    ELSE IF a.kind = "zero" THEN b
    ELSE IF b.kind = "zero" THEN a
    ELSE LET low == IF a.exp < b.exp THEN a.exp ELSE b.exp
             e0 == low - (Precision - 1)
             x == ShiftLeft(a.man, a.exp - low)
             y == ShiftLeft(b.man, b.exp - low)
         IN  IF a.sign = b.sign THEN RoundToDouble(a.sign, BigAdd(x, y), e0)
             ELSE IF x = y THEN Zero
             ELSE IF BigLess(y, x) THEN RoundToDouble(a.sign, BigSub(x, y), e0)
             ELSE RoundToDouble(b.sign, BigSub(y, x), e0)

\* a - b
FSub(a, b) == FAdd(a, FNeg(b))

\* |a| < |b|, for numbers
MagnitudeLess(a, b) ==
    IF b.kind = "zero" THEN FALSE
    ELSE IF a.kind = "zero" THEN TRUE
    ELSE a.exp < b.exp \/ (a.exp = b.exp /\ BigLess(a.man, b.man))

\* a < b, for numbers
FLess(a, b) ==
    IF IsNegative(a) THEN (IF IsNegative(b) THEN MagnitudeLess(b, a) ELSE TRUE)
    ELSE (IF IsNegative(b) THEN FALSE ELSE MagnitudeLess(a, b))

\* a >= b and a <= b: false when either is NaN.
FGeq(a, b) == ~IsNaN(a) /\ ~IsNaN(b) /\ ~FLess(a, b)
FLeq(a, b) == ~IsNaN(a) /\ ~IsNaN(b) /\ ~FLess(b, a)

\* x / 2^f for f > 0, rounded to an integer (a small one), ties to even.
RoundedShift(x, f) ==
    LET padded == IF Len(x) < f THEN PadLeft(x, f) ELSE x
        whole == BitsValue(SubSeq(padded, 1, Len(padded) - f))
        frac == SubSeq(padded, Len(padded) - f + 1, Len(padded))
        up == /\ frac[1] = 1
              /\ \/ whole % 2 = 1
                 \/ \E i \in 2..f : frac[i] = 1
    IN  IF up THEN whole + 1 ELSE whole

\* The exact value of a float times 10^places, rounded to an integer, ties to
\* even: the digits a format "%.<places>f" prints for its magnitude.
FixedDigits(a, places) ==
    IF a.kind = "zero" THEN 0
    ELSE IF a.exp >= Precision - 1
    THEN BitsValue(ShiftLeft(MulSmall(a.man, Pow10(places)), a.exp - (Precision - 1)))
    ELSE RoundedShift(MulSmall(a.man, Pow10(places)), (Precision - 1) - a.exp)

(***************************************************************************)
(* The overlap statistic of plot_violin_and_statistics (lines 137-146).    *)
(* The labels and the predictions are floats; a float written as a count   *)
(* of thousandths is the one a literal with three decimals denotes.        *)
(* np.std (a square root) and the prints and the plot take no part in      *)
(* `overlap` and are left out.                                             *)
(***************************************************************************)
Num(v) == ToDouble(v, 1000)

\* accuracy = 1e-3, in thousandths, and the float
accuracy == 1
accuracy_float == Num(accuracy)

\* np.min / np.max of a non-empty array: NaN if any element is NaN.
NpMin(a) ==
    IF \E i \in DOMAIN a : IsNaN(a[i]) THEN NaN
    ELSE CHOOSE m \in Range(a) : \A i \in DOMAIN a : ~FLess(a[i], m)

NpMax(a) ==
    IF \E i \in DOMAIN a : IsNaN(a[i]) THEN NaN
    ELSE CHOOSE m \in Range(a) : \A i \in DOMAIN a : ~FLess(m, a[i])

\* np.unique(actual): the distinct values in increasing order (no NaN label).
RECURSIVE SortedSeq(_)
SortedSeq(S) ==
    IF S = {} THEN <<>>
    ELSE LET m == CHOOSE u \in S : \A w \in S : ~FLess(w, u)
         IN  <<m>> \o SortedSeq(S \ {m})

NpUnique(a) == SortedSeq(Range(a))

\* predictions[np.where(actual == val)]
predictions_mapped(predictions, actual, val) ==
    LET Keep(i) == actual[i] = val
        idx == SelectSeq([i \in DOMAIN actual |-> i], Keep)
    IN  [k \in DOMAIN idx |-> predictions[idx[k]]]

\* A mutant of the test: the tolerance narrows the window instead of widening
\* it, (val - accuracy >= min) & (val + accuracy <= max).
OverlapOfNarrow(mapped, val) ==
    /\ FGeq(FSub(val, accuracy_float), NpMin(mapped))
    /\ FLeq(FAdd(val, accuracy_float), NpMax(mapped))

\* (val + accuracy >= np.min(mapped)) & (val - accuracy <= np.max(mapped))
OverlapOf(mapped, val) ==
    /\ FGeq(FAdd(val, accuracy_float), NpMin(mapped))
    /\ FLeq(FSub(val, accuracy_float), NpMax(mapped))

overlap_list(predictions, actual) ==
    LET vals == NpUnique(actual)
    IN  [k \in DOMAIN vals |->
            OverlapOf(predictions_mapped(predictions, actual, vals[k]), vals[k])]

\* The label values, in thousandths: 0, and 0.009, 0.010, ... : in floats
\* 0.009 + 0.001 is below 0.010, and 0.010 - 0.001 is above 0.009.
OverlapValues == {0} \cup 9..(8 + MaxVal)

OverlapActual == {Num(v) : v \in OverlapValues}
OverlapPredicted == OverlapActual \cup {NaN}

OverlapInputs ==
    UNION {[predictions : [1..n -> OverlapPredicted], actual : [1..n -> OverlapActual]]
           : n \in 0..MaxPairs}

InitOverlap ==
    /\ pc = "call"
    /\ args \in OverlapInputs
    /\ loc = NoLocals
    /\ ret = NoReturn

Statistics ==
    /\ pc = "call"
    /\ pc' = "done"
    /\ loc' = [vals |-> NpUnique(args.actual)]
    /\ ret' = [overlap |-> overlap_list(args.predictions, args.actual)]
    /\ UNCHANGED args

NextOverlap == Statistics

SpecOverlap == InitOverlap /\ [][NextOverlap]_vars

\* Label value number k has a paired prediction exactly equal to it.
HasExact(k) ==
    \E i \in DOMAIN args.actual :
        args.actual[i] = loc.vals[k] /\ args.predictions[i] = loc.vals[k]

\* No prediction paired with label value number k is NaN.
NoNaNFor(k) ==
    \A i \in DOMAIN args.actual :
        args.actual[i] = loc.vals[k] => ~IsNaN(args.predictions[i])

\* C7 as stated: for every unique label value V with a paired prediction
\* exactly equal to V, the overlap indicator of V is true.
C7_AsStated ==
    pc = "done" => \A k \in DOMAIN loc.vals : HasExact(k) => ret.overlap[k]

\* C7 amended: for every unique label value V with a paired prediction exactly
\* equal to V and no NaN among the predictions paired with V, the overlap
\* indicator of V is true.
C7_Overlap ==
    pc = "done" =>
        \A k \in DOMAIN loc.vals : (HasExact(k) /\ NoNaNFor(k)) => ret.overlap[k]

\* C7 witness: a label value with an exact prediction and with another
\* prediction more than the tolerance away, and its indicator is true.
C7_Witness ==
    /\ pc = "done"
    /\ \E k \in DOMAIN loc.vals :
        /\ HasExact(k) /\ NoNaNFor(k) /\ ret.overlap[k]
        /\ \E i \in DOMAIN args.actual :
            /\ args.actual[i] = loc.vals[k]
            /\ FLess(FAdd(loc.vals[k], accuracy_float), args.predictions[i])

(***************************************************************************)
(* get_huber_loss (lines 153-165), elementwise on tensors of one shape.    *)
(* y_true, y_pred and clip_delta are integers, counts of one fixed-point   *)
(* unit u; a loss is an integer count of u*u/2, so that 0.5 * e^2 is e*e   *)
(* and clip_delta * (|e| - 0.5 * clip_delta) is                            *)
(* clip_delta * (2|e| - clip_delta), both exact.                           *)
(***************************************************************************)
Abs(e) == IF e < 0 THEN 0 - e ELSE e

squared_loss(error) == error * error

\* A mutant of the linear branch: the half is forgotten,
\* clip_delta * (|error| - clip_delta).
linear_loss_no_half(error, clip_delta) ==
    clip_delta * (2 * Abs(error) - 2 * clip_delta)

linear_loss(error, clip_delta) == clip_delta * (2 * Abs(error) - clip_delta)

huber_element(y_true, y_pred, clip_delta) ==
    LET error == y_true - y_pred
        cond == Abs(error) < clip_delta
    IN  IF cond THEN squared_loss(error) ELSE linear_loss(error, clip_delta)

get_huber_loss(y_true, y_pred, clip_delta) ==
    [i \in DOMAIN y_true |-> huber_element(y_true[i], y_pred[i], clip_delta)]

HuberInputs ==
    UNION {[y_true : [1..n -> 0..MaxY], y_pred : [1..n -> 0..MaxY],
            clip_delta : 1..MaxDelta] : n \in 1..MaxVec}

InitHuber ==
    /\ pc = "call"
    /\ args \in HuberInputs
    /\ loc = NoLocals
    /\ ret = NoReturn

HuberLoss ==
    /\ pc = "call"
    /\ pc' = "done"
    /\ ret' = [value |-> get_huber_loss(args.y_true, args.y_pred, args.clip_delta)]
    /\ UNCHANGED <<args, loc>>

NextHuber == HuberLoss

SpecHuber == InitHuber /\ [][NextHuber]_vars

HuberError(i) == args.y_true[i] - args.y_pred[i]

\* C8: the loss of an element with |y_true - y_pred| = 0 is 0, and the loss of
\* an element whose absolute error is exactly clip_delta is both
\* 0.5 * error^2 and clip_delta * (|error| - 0.5 * clip_delta).
C8_Huber ==
    pc = "done" =>
        \A i \in DOMAIN ret.value :
            /\ (Abs(HuberError(i)) = 0 => ret.value[i] = 0)
            /\ (Abs(HuberError(i)) = args.clip_delta =>
                   /\ ret.value[i] = HuberError(i) * HuberError(i)
                   /\ ret.value[i] =
                        args.clip_delta * (2 * Abs(HuberError(i)) - args.clip_delta))

\* C8 witness: one call with an element of error 0 and an element whose
\* absolute error is clip_delta, the second with a loss above 0.
C8_Witness ==
    /\ pc = "done"
    /\ \E i, j \in DOMAIN ret.value :
        /\ HuberError(i) = 0
        /\ Abs(HuberError(j)) = args.clip_delta
        /\ ret.value[j] > 0

(***************************************************************************)
(* data_load (lines 24-69).                                                *)
(*                                                                         *)
(* Numbers.  An alpha, a density and a label (tumble) are floats that a     *)
(* decimal literal denotes, and are written by the literal: an alpha as a  *)
(* count of 1/10000, a density as a count of 1/100, a label as a count of  *)
(* 1/1000.  Where the float itself matters (the format of line 40) it is   *)
(* computed from the literal.  A pixel                                     *)
(* value is an integer count of quarters, so that 1 is One = 4 quarters    *)
(* and the division by 4 of lines 52 and 54 is exact on the values a file  *)
(* holds (whole numbers).                                                  *)
(***************************************************************************)
\* img / 4 (line 54) and / 4 (line 52)
Levels == 4
\* np.random.randint(1, 5, ...): the exclusive upper end (line 52)
RandHigh == 5
\* size=(128, 128) (line 52)
ScrambleSize == 128
\* np.roll(img, (42, 42), ...) (line 60) and np.roll(img, (120, 120), ...) (line 61)
Shift1 == 42
Shift2 == 120

One == Levels

DigitChars == <<"0", "1", "2", "3", "4", "5", "6", "7", "8", "9">>
DigitChar(n) == DigitChars[n + 1]

\* The value of a digit, as float() reads it: of any digit of Unicode.
DigitValue(c) ==
    IF c \in AsciiDigits THEN CHOOSE n \in 0..9 : DigitChars[n + 1] = c
    ELSE CHOOSE n \in 0..9 : \E b \in DigitBases : c = Chr(b + n)

\* The decimal digits of a natural number.
RECURSIVE DecimalDigits(_)
DecimalDigits(n) ==
    IF n < 10 THEN <<DigitChar(n)>>
    ELSE Append(DecimalDigits(n \div 10), DigitChar(n % 10))

\* The value of a run of digits.
RECURSIVE DigitsValue(_)
DigitsValue(t) ==
    IF t = <<>> THEN 0
    ELSE 10 * DigitsValue(SubSeq(t, 1, Len(t) - 1)) + DigitValue(t[Len(t)])

\* f"{alp:.3f}" for the float alp, written as a count of 1/10000 (the float a
\* literal with four decimals denotes): the exact value of the float rounded
\* to three decimals, ties to even; a sign if it is negative, the integer
\* part, a point and three digits.
Format3f(alp) ==
    LET x == ToDouble(alp, 10000)
        t == FixedDigits(x, 3)
        frac == t % 1000
    IN  (IF IsNegative(x) THEN <<"-">> ELSE <<>>)
        \o DecimalDigits(t \div 1000)
        \o <<".", DigitChar(frac \div 100), DigitChar((frac \div 10) % 10),
             DigitChar(frac % 10)>>

\* f"{val}" for val >= 0 in 1/100, a float that is exactly that decimal: the
\* shortest decimal that reads back, which keeps one digit after the point
\* at least ("0.0", "0.1", "0.25").
FormatDefault(val) ==
    LET frac == val % 100
    IN  DecimalDigits(val \div 100) \o <<".">>
        \o (IF frac % 10 = 0 THEN <<DigitChar(frac \div 10)>>
            ELSE <<DigitChar(frac \div 10), DigitChar(frac % 10)>>)

\* float(text), in 1/1000, for a text of extract_floats with at most three
\* digits after the point.
ParseFloat(text) ==
    LET signed == text # <<>> /\ text[1] \in Signs
        body == IF signed THEN Tail(text) ELSE text
        point == IF \E p \in DOMAIN body : body[p] = "."
                 THEN CHOOSE p \in DOMAIN body : body[p] = "."
                 ELSE Len(body) + 1
        whole == SubSeq(body, 1, point - 1)
        frac == SubSeq(body, point + 1, Len(body))
        magnitude == 1000 * DigitsValue(whole) + DigitsValue(frac) * Pow10(3 - Len(frac))
    IN  IF signed /\ text[1] = "-" THEN 0 - magnitude ELSE magnitude

\* "no_roll_data/dataset_tumble_"
PathPrefix ==
    <<"n", "o", "_", "r", "o", "l", "l", "_", "d", "a", "t", "a", "/",
      "d", "a", "t", "a", "s", "e", "t", "_", "t", "u", "m", "b", "l", "e", "_">>

\* The alphas of the model, in 1/10000: 0.0156 ("0.016"), and 0.0625, which
\* lies halfway between two thousandths and is a float exactly ("0.062").
AlphaValues == {156, 625}

\* Format3f of the alphas of the model, computed once.
Format3fOfAlphaValues == [alp \in AlphaValues |-> Format3f(alp)]

\* f"no_roll_data/dataset_tumble_{alp:.3f}_{val}.h5" (line 40)
PathOf(alp, val) ==
    PathPrefix
    \o (IF alp \in AlphaValues THEN Format3fOfAlphaValues[alp] ELSE Format3f(alp))
    \o <<"_">> \o FormatDefault(val) \o <<".", "h", "5">>

\* glob.glob(pattern) for a pattern with no wildcard: the path, if the file
\* exists.  dir maps the path of each existing file to its images, in the
\* order of fin.keys().
GlobOne(dir, pattern) == IF pattern \in DOMAIN dir THEN <<pattern>> ELSE <<>>

\* Lines 37-40: for alp in alphas: for val in densities: files += glob(...)
GlobAll(dir, alphas, densities) ==
    Flatten([a \in DOMAIN alphas |->
        Flatten([d \in DOMAIN densities |->
            GlobOne(dir, PathOf(alphas[a], densities[d]))])])

\* A mutant of line 44: the second number of the path (the density) is taken,
\* float(extract_floats(f)[1]).
TumbleOfSecond(f) == ParseFloat(extract_floats(f)[2])

\* Line 44: tumble = float(extract_floats(f)[0])
TumbleOf(f) == ParseFloat(extract_floats(f)[1])

(***************************************************************************)
(* Arrays.  An array is [shape, data], as in NumPy: data is the buffer,    *)
(* the elements in row-major order (a sequence, so from position 1), and   *)
(* the element at index (i, j) of a 2-D array, or (i, j, c) of a 3-D one,  *)
(* indices from 0, is found at the offset below.                           *)
(***************************************************************************)
Offset2(shape, i, j) == i * shape[2] + j + 1
Offset3(shape, i, j, c) == (i * shape[2] + j) * shape[3] + c + 1

\* The index of the element at position k of the buffer.
RowOf(shape, k) == (k - 1) \div (shape[2] * (IF Len(shape) = 3 THEN shape[3] ELSE 1))
ColOf(shape, k) == ((k - 1) \div (IF Len(shape) = 3 THEN shape[3] ELSE 1)) % shape[2]
ChannelOf(shape, k) == (k - 1) % shape[3]

\* A mutant of line 50: the binarisation is left out.
BinarizeSkipped(img) == img

\* Line 50: img[img > 0] = 1
Binarize(img) ==
    [img EXCEPT !.data = [k \in DOMAIN img.data |->
                             IF img.data[k] > 0 THEN One ELSE img.data[k]]]

\* Line 54: img / 4
DivideByLevels(img) ==
    [img EXCEPT !.data = [k \in DOMAIN img.data |-> img.data[k] \div Levels]]

\* NumPy broadcasting of two sides: equal, or one of them 1; 0 if neither.
BroadcastSide(a, b) == IF a = b \/ b = 1 THEN a ELSE IF a = 1 THEN b ELSE 0

Broadcastable(shape, other) ==
    BroadcastSide(shape[1], other[1]) # 0 /\ BroadcastSide(shape[2], other[2]) # 0

\* The index of an operand of side n that a result index i reads.
BroadcastIndex(i, n) == IF n = 1 THEN 0 ELSE i

\* np.random.randint(1, 5, size=(128, 128)): every buffer of that many
\* entries in 1..4.
RandInt == [1..(ScrambleSize * ScrambleSize) -> 1..(RandHigh - 1)]

\* Line 52: img * noise / 4, for broadcastable shapes.
Scramble(img, noise) ==
    LET shape == <<BroadcastSide(img.shape[1], ScrambleSize),
                   BroadcastSide(img.shape[2], ScrambleSize)>>
    IN  [shape |-> shape,
         data |-> [k \in 1..(shape[1] * shape[2]) |->
                    (img.data[Offset2(img.shape,
                                      BroadcastIndex(RowOf(shape, k), img.shape[1]),
                                      BroadcastIndex(ColOf(shape, k), img.shape[2]))]
                     * noise[k]) \div Levels]]

\* Line 55: img.reshape((img.shape[0], img.shape[1], 1)): the same buffer under
\* a shape with one more side.
Reshape(img) ==
    [shape |-> <<img.shape[1], img.shape[2], 1>>, data |-> img.data]

\* A mutant of np.roll: a shift that does not wrap around; what leaves the
\* array is lost and 0 comes in.
RollNoWrap(img, s0, s1) ==
    [img EXCEPT !.data = [k \in DOMAIN img.data |->
        IF /\ RowOf(img.shape, k) - s0 \in 0..(img.shape[1] - 1)
           /\ ColOf(img.shape, k) - s1 \in 0..(img.shape[2] - 1)
        THEN img.data[Offset3(img.shape, RowOf(img.shape, k) - s0,
                              ColOf(img.shape, k) - s1, ChannelOf(img.shape, k))]
        ELSE 0]]

\* np.roll(img, (s0, s1), axis=(0, 1)) of a 3-D array: the element at (i, j, c)
\* moves to ((i + s0) mod H, (j + s1) mod W, c).
Roll(img, s0, s1) ==
    [img EXCEPT !.data = [k \in DOMAIN img.data |->
        img.data[Offset3(img.shape,
                         (RowOf(img.shape, k) - s0) % img.shape[1],
                         (ColOf(img.shape, k) - s1) % img.shape[2],
                         ChannelOf(img.shape, k))]]]

\* a[order]: indexing by an integer array (1-based here).
Take(a, order) == [i \in DOMAIN order |-> a[order[i]]]

\* A mutant of line 69: the labels are returned in their order of loading,
\* np.array(outputs).
LabelsUnshuffled(outputs, order) == outputs

\* np.array(outputs)[order] (line 69)
ShuffledLabels(outputs, order) == Take(outputs, order)

Unbound == <<>>

\* np.array(inputs) needs one shape (line 69).
Uniform(inputs) == \A i, j \in DOMAIN inputs : inputs[i].shape = inputs[j].shape

\* What np.array(inputs) does with images of several shapes: NumPy from 1.24
\* raises ValueError; older ones raise it too when the first sides agree, and
\* else build an array of objects.
ArrayOutcomes(inputs) ==
    IF Uniform(inputs) THEN {"array"}
    ELSE IF \A i, j \in DOMAIN inputs : inputs[i].shape[1] = inputs[j].shape[1]
         THEN {"ValueError"}
         ELSE {"ValueError", "array"}

(***************************************************************************)
(* The actions of data_load.  loc holds the function's locals; loc.fi and  *)
(* loc.ki are the positions of the two for loops, and loc.src is a history *)
(* variable that is not in the code: for each sample appended, the file    *)
(* position, key position and copy (0 the base image, 1 and 2 the shifted  *)
(* ones) it came from.                                                     *)
(***************************************************************************)
LoadStart(a) ==
    /\ pc = "glob"
    /\ args = a
    /\ loc = [files |-> <<>>, fi |-> 0, ki |-> 0, tumble |-> Unbound, count |-> 0,
              inputs |-> <<>>, outputs |-> <<>>, shape |-> Unbound,
              order |-> <<>>, src |-> <<>>]
    /\ ret = NoReturn

\* Lines 37-42.
Glob ==
    /\ pc = "glob"
    /\ pc' = "files"
    /\ loc' = [loc EXCEPT !.files = GlobAll(args.dir, args.alphas, args.densities),
                          !.fi = 1]
    /\ UNCHANGED <<args, ret>>

\* Lines 43-46: the next file of `for f in files`.
OpenFile ==
    /\ pc = "files"
    /\ loc.fi <= Len(loc.files)
    /\ pc' = "keys"
    /\ loc' = [loc EXCEPT !.tumble = TumbleOf(loc.files[loc.fi]),
                          !.count = 0,
                          !.ki = 1]
    /\ UNCHANGED <<args, ret>>

\* Lines 55-64, for the image img that lines 48-54 made.
Append3(img) ==
    LET shaped == Reshape(img)
    IN  /\ pc' = "keys"
        /\ loc' = [loc EXCEPT
                !.shape = shaped.shape,
                !.inputs = loc.inputs \o <<shaped,
                                           Roll(shaped, Shift1, Shift1),
                                           Roll(shaped, Shift2, Shift2)>>,
                !.outputs = loc.outputs \o <<loc.tumble, loc.tumble, loc.tumble>>,
                !.src = loc.src \o [c \in 1..3 |->
                            [file |-> loc.fi, key |-> loc.ki, copy |-> c - 1]],
                !.count = loc.count + 1,
                !.ki = loc.ki + 1]
        /\ ret' = ret

\* Lines 47-64: the next key of `for key in fin.keys()`.
ReadImage ==
    /\ pc = "keys"
    /\ loc.ki <= Len(args.dir[loc.files[loc.fi]])
    /\ LET img == args.dir[loc.files[loc.fi]][loc.ki]
       IN  IF args.orientation
           THEN Append3(DivideByLevels(img))
           ELSE IF ~args.scrambled
           THEN Append3(Binarize(img))
           ELSE IF Broadcastable(img.shape, <<ScrambleSize, ScrambleSize>>)
           THEN \E noise \in RandInt : Append3(Scramble(Binarize(img), noise))
           ELSE \* operands could not be broadcast together
                /\ pc' = "error"
                /\ ret' = [exc |-> "ValueError"]
                /\ loc' = loc
    /\ UNCHANGED args

\* The end of `for key in fin.keys()` and of the with block.
CloseFile ==
    /\ pc = "keys"
    /\ loc.ki > Len(args.dir[loc.files[loc.fi]])
    /\ pc' = "files"
    /\ loc' = [loc EXCEPT !.fi = loc.fi + 1]
    /\ UNCHANGED <<args, ret>>

\* Lines 66-69, after the last file: order is any permutation of the sample
\* indices; the return expression is evaluated left to right, and `shape` is
\* unbound when no image was read.
Return ==
    /\ pc = "files"
    /\ loc.fi > Len(loc.files)
    /\ \E order \in Permutations(1..Len(loc.outputs)) :
       \E outcome \in ArrayOutcomes(loc.inputs) :
          /\ loc' = [loc EXCEPT !.order = order]
          /\ IF outcome = "ValueError"
             THEN pc' = "error" /\ ret' = [exc |-> "ValueError"]
             ELSE IF loc.shape = Unbound
             THEN pc' = "error" /\ ret' = [exc |-> "UnboundLocalError"]
             ELSE /\ pc' = "done"
                  /\ ret' = [x |-> Take(loc.inputs, order),
                             y |-> ShuffledLabels(loc.outputs, order),
                             shape |-> loc.shape]
    /\ UNCHANGED args

NextLoad == Glob \/ OpenFile \/ ReadImage \/ CloseFile \/ Return

(***************************************************************************)
(* The inputs of data_load.                                                *)
(***************************************************************************)
\* The sequences over S of length at most n.
SeqsUpTo(S, n) == UNION {[1..k -> S] : k \in 0..n}

\* The sets of at most k of the given sites.
RECURSIVE SitesUpTo(_, _)
SitesUpTo(sites, k) ==
    IF k = 0 THEN {{}}
    ELSE LET fewer == SitesUpTo(sites, k - 1)
         IN  fewer \cup {T \cup {s} : T \in fewer, s \in sites}

\* The values a raw pixel is drawn from, in whole numbers: 0 is an empty
\* site, 1..4 an occupied one, and below zero what no simulation writes but a
\* file can hold.
RawValues == (0 - NegPix)..Levels

\* The raw images of one shape: at most MaxParticles sites are not 0.
RawImagesOf(h, w) ==
    UNION {{[shape |-> <<h, w>>,
             data |-> [k \in 1..(h * w) |-> IF k \in T THEN v[k] * One ELSE 0]]
            : v \in [T -> RawValues \ {0}]}
           : T \in SitesUpTo(1..(h * w), MaxParticles)}

\* The sides of the drawn images: a small one, which both shifts leave in
\* place (42 and 120 are even), and the largest one.  No side is 1: line 52
\* would stretch it to 128.
Sides == {2, MaxDim}

\* 0.1 ("0.1")
DensityValues == {10}

CandidatePaths == {PathOf(a, d) : a \in AlphaValues, d \in DensityValues}

\* The images the files of the counting specification hold: a 2 x 4 one with
\* an occupied site and an empty 3 x 2 one.
LoadImages ==
    {[shape |-> <<2, 4>>, data |-> <<0, 0, 0, 0, 0, 0, 0, 3 * One>>],
     [shape |-> <<3, 2>>, data |-> <<0, 0, 0, 0, 0, 0>>]}

\* The directories: some of the candidate files exist, each with at most
\* MaxImgs images.
Directories(images) ==
    UNION {[P -> SeqsUpTo(images, MaxImgs)] : P \in SUBSET CandidatePaths}

\* The images a call loads, files matched twice counted twice.
Loaded(a) ==
    LET files == GlobAll(a.dir, a.alphas, a.densities)
    IN  SumSeq([i \in DOMAIN files |-> Len(a.dir[files[i]])])

LoadInputs ==
    {a \in [alphas : SeqsUpTo(AlphaValues, MaxAlphas),
            densities : SeqsUpTo(DensityValues, MaxDens),
            orientation : BOOLEAN,
            scrambled : BOOLEAN,
            dir : Directories(LoadImages)] :
        3 * Loaded(a) <= MaxSamples}

InitLoad == \E a \in LoadInputs : LoadStart(a)

SpecLoad == InitLoad /\ [][NextLoad]_vars

\* The arguments of the pixel-level specification: one file with one image.
PixelInputsOf(img) ==
    [alphas : {<<625>>},
     densities : {<<10>>},
     orientation : BOOLEAN,
     scrambled : BOOLEAN,
     dir : {[P \in {PathOf(625, 10)} |-> <<img>>]}]

\* One file with one image of any drawn shape and content.
InitPixel ==
    \E h \in Sides, w \in Sides :
        \E img \in RawImagesOf(h, w) :
            \E a \in PixelInputsOf(img) : LoadStart(a)

SpecPixel == InitPixel /\ [][NextLoad]_vars

(***************************************************************************)
(* The claims about data_load.                                             *)
(***************************************************************************)
Terminated == pc \in {"done", "error"}

\* The file and the raw image that sample number j (before the shuffle) came
\* from.
PathOfSample(j) == loc.files[loc.src[j].file]
RawOfSample(j) == args.dir[PathOfSample(j)][loc.src[j].key]

\* The first float of a path, as a number, and the table of it for the paths
\* a file can have.
FirstFloatOf(path) == ParseFloat(Head(extract_floats(path)))
FirstFloats == [path \in CandidatePaths |-> FirstFloatOf(path)]

\* The images stored across the matched files (a file matched twice counts
\* twice, as it is read twice).
StoredImages == SumSeq([f \in DOMAIN loc.files |-> Len(args.dir[loc.files[f]])])

\* C1: a returned dataset has exactly 3 x (images stored across the matched
\* files) samples and as many labels; each stored image gives exactly three of
\* the samples (the base image and the two shifted copies), and each of them
\* carries the first float of the path of the file it was read from.
C1_LoadCount ==
    pc = "done" =>
        /\ Len(ret.x) = 3 * StoredImages
        /\ Len(ret.y) = 3 * StoredImages
        /\ \A f \in DOMAIN loc.files :
            \A label \in {FirstFloats[loc.files[f]]} :
                \A k \in DOMAIN args.dir[loc.files[f]] :
                \A c \in 0..2 :
                    LET from == {i \in DOMAIN ret.x :
                                    loc.src[loc.order[i]] = [file |-> f, key |-> k, copy |-> c]}
                    IN  /\ Cardinality(from) = 1
                        /\ \A i \in from : ret.y[i] = label

\* C1 witness: a dataset returned from two files with different labels.
C1_Witness ==
    /\ pc = "done"
    /\ Len(ret.y) = MaxSamples
    /\ \E i, j \in DOMAIN ret.y : ret.y[i] # ret.y[j]

IsPermutation(order, n) ==
    /\ DOMAIN order = 1..n
    /\ \A k \in 1..n : \E i \in 1..n : order[i] = k

\* C2: the returned images and labels are the loaded ones rearranged by one
\* permutation: order is a permutation of the sample indices, and at every
\* position i the image is sample order[i] and the label is the label that
\* was appended with that sample.
C2_Shuffle ==
    pc = "done" =>
        /\ IsPermutation(loc.order, Len(loc.inputs))
        /\ Len(ret.x) = Len(loc.inputs) /\ Len(ret.y) = Len(loc.outputs)
        /\ \A i \in DOMAIN ret.x :
              /\ ret.x[i] = loc.inputs[loc.order[i]]
              /\ ret.y[i] = loc.outputs[loc.order[i]]

\* C2 witness: a shuffle that moved a sample to a position whose label before
\* the shuffle was another one.
C2_Witness ==
    /\ pc = "done"
    /\ \E i \in DOMAIN ret.y : loc.order[i] # i /\ ret.y[i] # loc.outputs[i]

\* C5 as stated: when no file matches, data_load returns an empty image
\* collection and an empty label collection and does not end in an error.
C5_AsStated ==
    (Terminated /\ loc.files = <<>>) =>
        (pc = "done" /\ ret.x = <<>> /\ ret.y = <<>>)

\* C5, what the code does: with no file matched, `shape` is unbound at the
\* return and the call ends in UnboundLocalError.
C5_Unbound ==
    (Terminated /\ loc.files = <<>>) =>
        (pc = "error" /\ ret.exc = "UnboundLocalError")

Binary == {0, One}
Quarters == {k * (One \div Levels) : k \in 0..Levels}

AllPixelsIn(img, S) == \A k \in DOMAIN img.data : img.data[k] \in S

\* C6 as stated: with orientation=False and scrambled=False every pixel of
\* every returned image is 0 or 1, whatever the raw image.
C6_AsStated ==
    (pc = "done" /\ ~args.orientation /\ ~args.scrambled) =>
        \A i \in DOMAIN ret.x : AllPixelsIn(ret.x[i], Binary)

\* C6 amended: with orientation=False and scrambled=False every pixel of
\* every returned image (base or shifted copy) that comes from a raw image
\* with no negative pixel is 0 or 1.
C6_Binary ==
    (pc = "done" /\ ~args.orientation /\ ~args.scrambled) =>
        \A i \in DOMAIN ret.x :
            (\A k \in DOMAIN RawOfSample(loc.order[i]).data :
                RawOfSample(loc.order[i]).data[k] >= 0)
            => AllPixelsIn(ret.x[i], Binary)

\* C6 witness: a returned shifted copy of a raw image with a pixel above 1 and
\* none below 0.
C6_Witness ==
    /\ pc = "done" /\ ~args.orientation /\ ~args.scrambled
    /\ \E i \in DOMAIN ret.x :
        /\ loc.src[loc.order[i]].copy = 1
        /\ \E k \in DOMAIN RawOfSample(loc.order[i]).data :
              RawOfSample(loc.order[i]).data[k] > One
        /\ \A k \in DOMAIN RawOfSample(loc.order[i]).data :
              RawOfSample(loc.order[i]).data[k] >= 0
        /\ \E k \in DOMAIN ret.x[i].data : ret.x[i].data[k] = One

\* How many elements of an array hold the value v.
CountOf(img, v) == Cardinality({k \in DOMAIN img.data : img.data[k] = v})

\* Two arrays of one shape hold each value as often.
SamePixels(a, b) ==
    /\ a.shape = b.shape
    /\ \A v \in Range(a.data) : CountOf(a, v) = CountOf(b, v)

\* C9: for every stored image, the copy shifted by (42, 42) shifted back by
\* (-42, -42) is the base image, element for element, and so is the copy
\* shifted by (120, 120) shifted back; each copy holds the base image's
\* pixels, each value as often.
C9_RollBijection ==
    \A t \in 1..(Len(loc.inputs) \div 3) :
        LET base == loc.inputs[3 * t - 2]
            copy1 == loc.inputs[3 * t - 1]
            copy2 == loc.inputs[3 * t]
        IN  /\ Roll(copy1, 0 - Shift1, 0 - Shift1) = base
            /\ Roll(copy2, 0 - Shift2, 0 - Shift2) = base
            /\ SamePixels(copy1, base)
            /\ SamePixels(copy2, base)

\* C9 witness: a stored image whose copy shifted by (42, 42) differs from it in
\* a row and in a column index.
C9_Witness ==
    /\ Len(loc.inputs) >= 3
    /\ \E p, q \in DOMAIN loc.inputs[1].data :
        /\ loc.inputs[1].data[p] # 0
        /\ loc.inputs[2].data[q] # 0
        /\ RowOf(loc.inputs[1].shape, p) # RowOf(loc.inputs[1].shape, q)
        /\ ColOf(loc.inputs[1].shape, p) # ColOf(loc.inputs[1].shape, q)

\* C10 as stated: with orientation=False and scrambled=True, a raw image of
\* any height H and width W is stored: the call does not fail on it, and each
\* stored image has shape (H, W, 1), pixels in {0, 0.25, 0.5, 0.75, 1}, and a
\* non-zero pixel exactly where the raw pixel was positive.
C10_AsStated ==
    (~args.orientation /\ args.scrambled) =>
        /\ pc # "error"
        /\ \A j \in DOMAIN loc.inputs :
            LET raw == RawOfSample(j)
                img == loc.inputs[j]
            IN  /\ img.shape = <<raw.shape[1], raw.shape[2], 1>>
                /\ AllPixelsIn(img, Quarters)
                /\ (loc.src[j].copy = 0 =>
                       \A k \in DOMAIN raw.data :
                           (img.data[k] # 0) <=> (raw.data[k] > 0))

\* C10, what the code does: on an image whose sides are neither 128 nor 1 the
\* multiplication by the 128 x 128 noise array raises ValueError, so nothing
\* is stored.
C10_BroadcastError ==
    (~args.orientation /\ args.scrambled /\ Terminated /\ loc.files # <<>>
        /\ args.dir[loc.files[1]] # <<>>) =>
        (pc = "error" /\ ret.exc = "ValueError" /\ loc.inputs = <<>>)

====
